---- MODULE Spec2Model ----
(***************************************************************************)
(* The embedding-indexed document store of the repository                  *)
(* (storage/vector_store.py: FAISSVectorStore), its two persisted          *)
(* artifacts (faiss_index.bin, documents.pkl) and the ingestion path that  *)
(* feeds it (storage/data_ingestion.py, api/data_sync.py,                  *)
(* storage/embeddings.py).                                                 *)
(*                                                                         *)
(* Python dicts are records; the in-memory FAISS index is the sequence of  *)
(* the vectors it holds (position i of the index is element i+1).          *)
(***************************************************************************)
EXTENDS Integers, Sequences, FiniteSets, TLC

(***************************************************************************)
(* Bounds of the model.                                                    *)
(***************************************************************************)
\* add_documents is offered only while the store holds at most this many documents afterwards
MaxDocs == 2
\* the longest batch handed to add_documents
MaxBatch == 2
\* ingest_data is offered only while the store holds at most this many documents afterwards
MaxIngested == 4
\* the most calls of a behaviour that a fault strikes
MaxFaults == 1
\* the most pieces (letters and sentence ends) of a text chunk_text is given
MaxText == 6
\* the largest chunk_size and overlap chunk_text is given
MaxChunk == 4
\* the most conversations the Bee server lists
MaxConvs == 3

(***************************************************************************)
(* Program constants.                                                      *)
(***************************************************************************)
\* data_ingestion.py: texts shorter than this are stored whole
LongTextThreshold == 2000
\* data_ingestion.py: chunk_size and overlap handed to embed_chunked_document
IngestChunkSize == 2000
IngestOverlap == 200
\* embeddings.py: how far back chunk_text looks for a sentence end
SentenceLookback == 100

\* The FAISSVectorStore instances over the one VECTOR_DB_PATH.  Main is the
\* instance a script or DataIngestion works on, Other a second instance of
\* the same files.
Stores == {"web", "script"}
Main == "web"
Other == "script"

VARIABLES
    index,      \* index[s]: the vectors of instance s's self.index, in position order
    documents,  \* documents[s]: instance s's self.documents
    alive,      \* alive[s]: instance s exists (its process has not been killed since it was constructed)
    disk,       \* the two files under VECTOR_DB_PATH
    faults,     \* how many calls a fault has struck so far
    api,        \* what the two vendor APIs serve and which of their calls fail
    last        \* the last call: what was called, with what, what it returned, the state before

vars == <<index, documents, alive, disk, faults, api, last>>

(***************************************************************************)
(* dict helpers                                                            *)
(***************************************************************************)
\* dict.get(k, default)
Get(d, k, default) == IF k \in DOMAIN d THEN d[k] ELSE default

\* d[k] = v on a copy of d
SetField(d, k, v) == [x \in (DOMAIN d) \cup {k} |-> IF x = k THEN v ELSE d[x]]

\* the dict without key k
DropField(d, k) == [x \in (DOMAIN d) \ {k} |-> d[x]]

Min(a, b) == IF a <= b THEN a ELSE b
Max(a, b) == IF a >= b THEN a ELSE b

\* the elements of a sequence that satisfy Keep, in order
RECURSIVE SelectIdx(_, _)
SelectIdx(seq, keep) ==
    IF seq = <<>> THEN <<>>
    ELSE LET n == Len(seq) IN
         IF n \in keep
         THEN Append(SelectIdx(SubSeq(seq, 1, n - 1), keep), seq[n])
         ELSE SelectIdx(SubSeq(seq, 1, n - 1), keep)

\* s repeated n times
RECURSIVE Rep(_, _)
Rep(s, n) == IF n = 0 THEN "" ELSE s \o Rep(s, n - 1)

(***************************************************************************)
(* The embedding model (SentenceTransformer.encode) and the index's        *)
(* metric.  The model is a deterministic function of the text alone; the   *)
(* vector of a text is written [of |-> text].  The squared L2 distance of  *)
(* two vectors is 0 exactly when they are the same vector.                 *)
(***************************************************************************)
Embed(text) == [of |-> text]

\* self.model.encode(texts): one vector per text, in order
encode(texts) == [i \in DOMAIN texts |-> Embed(texts[i])]

L2(v, w) ==
    IF v = w THEN 0
    ELSE 1 + (Len(v.of) - Len(w.of)) * (Len(v.of) - Len(w.of))

\* faiss.IndexFlatL2(self.vector_dim)
IndexFlatL2 == <<>>

(***************************************************************************)
(* Persistence: a file is missing, holds what was last written to it       *)
(* whole, or is corrupt (a write that did not complete).                   *)
(***************************************************************************)
Missing == [state |-> "missing", data |-> <<>>]
Corrupt == [state |-> "corrupt", data |-> <<>>]
Written(data) == [state |-> "ok", data |-> data]

\* How a run of _save can end.  "ok": both files written.
\* "index_open_raises": faiss.write_index raises before touching the file.
\* "index_write_raises": faiss.write_index raises part-way, the file is partial.
\* "docs_open_raises": open(docs_path, 'wb') raises, after the index was written.
\* "docs_dump_raises": pickle.dump raises part-way, after the index was written.
\* The process can also be killed while it runs:
\* "killed_writing_index": part-way through write_index;
\* "killed_between": after write_index returned, before documents.pkl is opened;
\* "killed_writing_docs": part-way through pickle.dump.
KillOutcomes == {"killed_writing_index", "killed_between", "killed_writing_docs"}

SaveOutcomes ==
    {"ok", "index_open_raises", "index_write_raises", "docs_open_raises",
     "docs_dump_raises"} \cup KillOutcomes

\* the files after a run of _save that ends as `outcome`
save(idx, docs, dsk, outcome) ==
    CASE outcome = "ok" ->
            [index |-> Written(idx), docs |-> Written(docs)]
      [] outcome = "index_open_raises" -> dsk
      [] outcome \in {"index_write_raises", "killed_writing_index"} ->
            [dsk EXCEPT !.index = Corrupt]
      [] outcome \in {"docs_open_raises", "killed_between"} ->
            [dsk EXCEPT !.index = Written(idx)]
      [] outcome \in {"docs_dump_raises", "killed_writing_docs"} ->
            [index |-> Written(idx), docs |-> Corrupt]

\* a _load that keeps whichever of the two files it could read
loadEachFile(dsk) ==
    [index |-> IF dsk.index.state = "ok" THEN dsk.index.data ELSE IndexFlatL2,
     documents |-> IF dsk.docs.state = "ok" THEN dsk.docs.data ELSE <<>>]

\* _load on a freshly constructed instance (empty index, no documents)
load(dsk) ==
    IF dsk.index.state # "missing" /\ dsk.docs.state # "missing"
    THEN IF dsk.index.state = "ok" /\ dsk.docs.state = "ok"
         THEN [index |-> dsk.index.data, documents |-> dsk.docs.data]
         ELSE [index |-> IndexFlatL2, documents |-> <<>>]
    ELSE [index |-> IndexFlatL2, documents |-> <<>>]

(***************************************************************************)
(* FAISSVectorStore: the in-memory effect and the return value of each     *)
(* method on a store st = [index, documents].  `saves` tells whether the   *)
(* method reaches its call of _save.                                       *)
(***************************************************************************)
Store(s) == [index |-> index[s], documents |-> documents[s]]

\* texts = [doc.get("text", "") for doc in documents]
TextsOf(docs) == [i \in DOMAIN docs |-> Get(docs[i], "text", "")]

\* any(texts)
AnyText(texts) == \E i \in DOMAIN texts : texts[i] # ""

\* the loop of add_documents: each document copied and stamped with
\* vector_id = current_size + i
StampBatch(batch, current_size) ==
    [i \in DOMAIN batch |-> SetField(batch[i], "vector_id", current_size + (i - 1))]

\* an add_documents without its early returns: it appends and saves whatever
\* the batch holds
add_documents_unguarded(st, batch) ==
    [index |-> st.index \o encode(TextsOf(batch)),
     documents |-> st.documents \o StampBatch(batch, Len(st.index)),
     ret |-> Len(batch),
     saves |-> TRUE]

\* add_documents when neither encode nor _save raises
add_documents(st, batch) ==
    IF batch = <<>> \/ ~AnyText(TextsOf(batch))
    THEN [index |-> st.index, documents |-> st.documents, ret |-> 0, saves |-> FALSE]
    ELSE [index |-> st.index \o encode(TextsOf(batch)),
          documents |-> st.documents \o StampBatch(batch, Len(st.index)),
          ret |-> Len(batch),
          saves |-> TRUE]

\* the positions (1-based) of the documents whose id is doc_id
Matches(docs, doc_id) == {i \in DOMAIN docs : Get(docs[i], "id", "") = doc_id}

First(S) == CHOOSE i \in S : \A j \in S : i <= j

\* del self.documents[i]
DeleteAt(docs, i) == SubSeq(docs, 1, i - 1) \o SubSeq(docs, i + 1, Len(docs))

\* delete_document without its renumbering loop: the survivors keep the
\* vector_ids they had
RenumberSkipped(docs) == docs

\* the renumbering loop of delete_document
Renumber(docs) == [i \in DOMAIN docs |-> SetField(docs[i], "vector_id", i - 1)]

\* delete_document dropping the last vector of the old index instead of
\* re-embedding the remaining documents
RebuildIndexTruncated(st, remaining) == SubSeq(st.index, 1, Len(remaining))

\* the index delete_document builds from the remaining documents
RebuildIndex(st, remaining) ==
    IF Len(remaining) > 0 THEN encode(TextsOf(remaining)) ELSE IndexFlatL2

\* a delete_document that saves the store also when it found nothing
delete_document_resaving(st, doc_id) ==
    IF Matches(st.documents, doc_id) = {}
    THEN [index |-> st.index, documents |-> st.documents, ret |-> FALSE, saves |-> TRUE]
    ELSE LET remaining == DeleteAt(st.documents, First(Matches(st.documents, doc_id))) IN
         [index |-> RebuildIndex(st, remaining),
          documents |-> IF Len(remaining) > 0 THEN Renumber(remaining) ELSE remaining,
          ret |-> TRUE,
          saves |-> TRUE]

\* delete_document when encode does not raise
delete_document(st, doc_id) ==
    IF Matches(st.documents, doc_id) = {}
    THEN [index |-> st.index, documents |-> st.documents, ret |-> FALSE, saves |-> FALSE]
    ELSE LET remaining == DeleteAt(st.documents, First(Matches(st.documents, doc_id))) IN
         [index |-> RebuildIndex(st, remaining),
          documents |-> IF Len(remaining) > 0 THEN Renumber(remaining) ELSE remaining,
          ret |-> TRUE,
          saves |-> TRUE]

\* delete_document when encode raises: the document is already gone from
\* self.documents, self.index is still the old one, _save is not reached
delete_document_encode_raises(st, doc_id) ==
    [index |-> st.index,
     documents |-> DeleteAt(st.documents, First(Matches(st.documents, doc_id)))]

\* clear
clear(st) == [index |-> IndexFlatL2, documents |-> <<>>, ret |-> TRUE, saves |-> TRUE]

None == [None |-> TRUE]

\* get_document_by_id
get_document_by_id(st, doc_id) ==
    IF Matches(st.documents, doc_id) = {} THEN None
    ELSE st.documents[First(Matches(st.documents, doc_id))]

\* the counts get_stats makes: documents per value of a field
CountBy(docs, field, default) ==
    [v \in {Get(docs[i], field, default) : i \in DOMAIN docs} |->
        Cardinality({i \in DOMAIN docs : Get(docs[i], field, default) = v})]

\* get_stats, without the model name, the vector size and the time of the call
get_stats(st) ==
    [total_documents |-> Len(st.documents),
     index_size |-> Len(st.index),
     sources |-> CountBy(st.documents, "source", "unknown"),
     dates |-> CountBy(SelectIdx(st.documents,
                                 {i \in DOMAIN st.documents :
                                    Get(st.documents[i], "date", "") # ""}),
                       "date", "")]

(***************************************************************************)
(* search.  A filter_fn is [kind, date, source]; a score 1 / (1 + d) is    *)
(* the pair <<1, 1 + d>>.                                                  *)
(***************************************************************************)
NoFilter == [kind |-> "none", date |-> "", source |-> ""]
DateFilter(date) == [kind |-> "date", date |-> date, source |-> ""]
SourceFilter(source) == [kind |-> "source", date |-> "", source |-> source]
BothFilter(date, source) == [kind |-> "both", date |-> date, source |-> source]

\* str.startswith
StartsWith(s, prefix) ==
    Len(prefix) <= Len(s) /\ SubSeq(s, 1, Len(prefix)) = prefix

\* doc_date and doc_date.startswith(date)
date_filter(doc, date) ==
    Get(doc, "date", "") # "" /\ StartsWith(Get(doc, "date", ""), date)

\* doc.get("source") == source
source_filter(doc, source) == Get(doc, "source", "") = source

\* a filter that lets every document through
PassesAll(f, doc) == TRUE

Passes(f, doc) ==
    CASE f.kind = "none" -> TRUE
      [] f.kind = "date" -> date_filter(doc, f.date)
      [] f.kind = "source" -> source_filter(doc, f.source)
      [] f.kind = "both" -> date_filter(doc, f.date) /\ source_filter(doc, f.source)

\* self.index.search(q, n): the positions (1-based) of the n vectors nearest
\* to q, nearest first; among equally distant vectors the earlier position first
RECURSIVE Nearest(_, _, _, _)
Nearest(idx, q, n, taken) ==
    IF n = 0 \/ (DOMAIN idx) \ taken = {} THEN <<>>
    ELSE LET cand == (DOMAIN idx) \ taken
             best == CHOOSE i \in cand : \A j \in cand :
                        \/ L2(q, idx[i]) < L2(q, idx[j])
                        \/ (L2(q, idx[i]) = L2(q, idx[j]) /\ i <= j)
         IN <<best>> \o Nearest(idx, q, n - 1, taken \cup {best})

\* float(1 / (1 + distance))
Score(d) == <<1, 1 + d>>

\* the comparison of a sort that puts the lowest score first
ScoreLess(a, b) == a[1] * b[2] < b[1] * a[2]

\* score a is strictly greater than score b
ScoreGreater(a, b) == a[1] * b[2] > b[1] * a[2]

\* sorted(results, key=score, reverse=True): stable, highest score first
RECURSIVE SortByScore(_)
SortByScore(results) ==
    IF results = <<>> THEN <<>>
    ELSE LET best == CHOOSE i \in DOMAIN results : \A j \in DOMAIN results :
                        \/ ScoreGreater(results[i].score, results[j].score)
                        \/ (~ScoreGreater(results[j].score, results[i].score) /\ i <= j)
         IN <<results[best]>> \o SortByScore(DeleteAt(results, best))

\* results[:k]
Take(seq, k) == SubSeq(seq, 1, Min(k, Len(seq)))

\* a search that asks the index for k neighbours only
FetchCountExact(k, ntotal) == Min(k, ntotal)

\* min(k * 2, self.index.ntotal): how many neighbours search asks the index for
FetchCount(k, ntotal) == Min(k * 2, ntotal)

\* search past its early return: embed the query, fetch the neighbours,
\* attach the scores, filter, sort and trim
Ranked(st, query, k, f) ==
    LET q == Embed(query)
        near == Nearest(st.index, q, FetchCount(k, Len(st.index)), {})
        inDocs == {i \in DOMAIN near : near[i] <= Len(st.documents)}
        hits == SelectIdx(near, inDocs)
        results == [i \in DOMAIN hits |->
                       SetField(st.documents[hits[i]], "score",
                                Score(L2(q, st.index[hits[i]])))]
        kept == IF f.kind = "none" THEN results
                ELSE SelectIdx(results, {i \in DOMAIN results : Passes(f, results[i])})
    IN Take(SortByScore(kept), k)

\* a search without the early return for an empty query or an empty index
searchUnguarded(st, query, k, f) == Ranked(st, query, k, f)

search(st, query, k, f) ==
    IF query = "" \/ Len(st.index) = 0 THEN <<>>
    ELSE Ranked(st, query, k, f)

search_by_date(st, query, date, k) == search(st, query, k, DateFilter(date))

search_by_source(st, query, source, k) == search(st, query, k, SourceFilter(source))

\* DataIngestion.search_conversations; date and source are "" when not given
search_conversations(st, query, k, date, source) ==
    IF date # "" /\ source # "" THEN search(st, query, k, BothFilter(date, source))
    ELSE IF date # "" THEN search_by_date(st, query, date, k)
    ELSE IF source # "" THEN search_by_source(st, query, source, k)
    ELSE search(st, query, k, NoFilter)

(***************************************************************************)
(* DocumentEmbedder (storage/embeddings.py).  Python positions are 0-based *)
(* and slices half-open: text[a:b] is SubSeq(text, a + 1, b).              *)
(***************************************************************************)
\* a slice bound as Python normalises it
Norm(i, n) == IF i < 0 THEN Max(i + n, 0) ELSE Min(i, n)

\* a slice that stops one character early
SliceShort(text, a, b) ==
    LET lo == Norm(a, Len(text))
        hi == Norm(b, Len(text)) - 1
    IN IF lo < hi THEN SubSeq(text, lo + 1, hi) ELSE ""

\* text[a:b]
Slice(text, a, b) ==
    LET lo == Norm(a, Len(text))
        hi == Norm(b, Len(text))
    IN IF lo < hi THEN SubSeq(text, lo + 1, hi) ELSE ""

\* text.rfind(sub, a, b): the highest position where sub starts inside text[a:b], or -1
rfind(text, sub, a, b) ==
    LET lo == Norm(a, Len(text))
        hi == Norm(b, Len(text))
        at == {i \in lo..(hi - Len(sub)) : SubSeq(text, i + 1, i + Len(sub)) = sub}
    IN IF at = {} THEN -1 ELSE CHOOSE i \in at : \A j \in at : j <= i

Max3(a, b, c) == Max(a, Max(b, c))

\* the end of the window that starts at `start`
WindowEnd(text, start, chunk_size) ==
    LET end == Min(start + chunk_size, Len(text))
        search_start == Max(end - SentenceLookback, start)
        last_period == Max3(rfind(text, ". ", search_start, end),
                            rfind(text, "! ", search_start, end),
                            rfind(text, "? ", search_start, end))
    IN IF end < Len(text) /\ last_period > start THEN last_period + 2 ELSE end

\* the while loop of chunk_text from `start` on: [chunks, returns].  `seen`
\* holds the values `start` has had; an iteration depends on `start` alone,
\* so the loop never ends once `start` takes a value a second time, and
\* returns is FALSE then.
RECURSIVE ChunkLoop(_, _, _, _, _, _)
ChunkLoop(text, chunk_size, overlap, start, chunks, seen) ==
    IF ~(start < Len(text)) THEN [chunks |-> chunks, returns |-> TRUE]
    ELSE IF start \in seen THEN [chunks |-> chunks, returns |-> FALSE]
    ELSE LET end == WindowEnd(text, start, chunk_size)
             added == Append(chunks, Slice(text, start, end))
             next == end - overlap
         IN IF next + chunk_size > Len(text) /\ next < Len(text) - overlap
            THEN [chunks |-> Append(added, Slice(text, next, Len(text))),
                  returns |-> TRUE]
            ELSE ChunkLoop(text, chunk_size, overlap, next, added, seen \cup {start})

chunk_text(text, chunk_size, overlap) ==
    IF text = "" \/ Len(text) <= chunk_size
    THEN [chunks |-> IF text = "" THEN <<>> ELSE <<text>>, returns |-> TRUE]
    ELSE ChunkLoop(text, chunk_size, overlap, 0, <<>>, {})

\* {**a, **b}: the keys of both, b's value where both have the key
Merge(a, b) ==
    [k \in (DOMAIN a) \cup (DOMAIN b) |-> IF k \in DOMAIN b THEN b[k] ELSE a[k]]

\* the dict embed_chunked_document builds for chunk i (0-based) of n
ChunkDoc(chunk, i, n, metadata) ==
    Merge([id |-> Get(metadata, "id", "doc") \o "_chunk_" \o ToString(i),
           text |-> chunk,
           chunk_index |-> i,
           chunk_count |-> n],
          metadata)

embed_chunked_document(text, metadata, chunk_size, overlap) ==
    IF text = "" THEN <<>>
    ELSE LET chunks == chunk_text(text, chunk_size, overlap).chunks IN
         [i \in DOMAIN chunks |-> ChunkDoc(chunks[i], i - 1, Len(chunks), metadata)]

(***************************************************************************)
(* The two vendor APIs as the ingestion code sees them.  The records they  *)
(* serve are fixed for a behaviour.  A native Bee id is [type, repr]: the  *)
(* Python type of the value and its str(); Bee serves integer ids.         *)
(***************************************************************************)
IntId(digits) == [type |-> "int", repr |-> digits]
StrId(chars) == [type |-> "str", repr |-> chars]

\* str(v)
Str(v) == v.repr

\* not v
Falsy(v) == (v.type = "int" /\ v.repr = "0") \/ (v.type = "str" /\ v.repr = "") \/ v.type = "none"

\* v as a dict key: 7 and "7" are different keys
Key(v) == v.type \o ":" \o v.repr

Day1 == "2025-05-04"
Day2 == "2025-05-05"
Dates == {Day1, Day2}

\* the order of the date and time strings in use (Python compares them as strings)
Rank(t) ==
    CASE t = "" -> 0
      [] t = "2025-05-04" -> 1
      [] t = "2025-05-04T09:00:00Z" -> 2
      [] t = "2025-05-05" -> 3
      [] t = "2025-05-05T10:00:00Z" -> 4
      [] t = "2025-05-05T10:30:00Z" -> 5
      [] t = "2025-05-05T11:00:00Z" -> 6
      [] t = "2025-05-05T12:00:00Z" -> 7

LongSpeech == Rep("Hello there. ", 170)

Lifelogs ==
    << [id |-> "L1", startTime |-> "2025-05-04T09:00:00Z", endTime |-> "2025-05-04T09:30:00Z",
        contents |-> << [type |-> "heading1", content |-> "Morning"],
                        [type |-> "blockquote", content |-> LongSpeech, speakerName |-> "Al"] >>],
       [id |-> "L2", startTime |-> "2025-05-05T10:00:00Z", endTime |-> "2025-05-05T10:05:00Z",
        contents |-> << [type |-> "heading1", content |-> "Standup"],
                        [type |-> "heading2", content |-> "Status"],
                        [type |-> "blockquote", content |-> "All green"] >>],
       [id |-> "L3", startTime |-> "2025-05-05T10:30:00Z", endTime |-> "2025-05-05T10:31:00Z",
        contents |-> << [type |-> "heading1", content |-> "Silence"] >>] >>

BeeConversations ==
    << [id |-> IntId("1670048"), start_time |-> "2025-05-05T11:00:00Z",
        end_time |-> "2025-05-05T11:20:00Z", summary |-> "Lunch plans",
        short_summary |-> "Lunch", primary_location |-> "Cafe"],
       [id |-> IntId("1668776"), start_time |-> "2025-05-05T12:00:00Z",
        end_time |-> "2025-05-05T12:01:00Z", primary_location |-> "Office"] >>

\* what the Bee API serves for a conversation id
BeeDetails(conversation_id) ==
    IF conversation_id = "1670048"
    THEN [conversation |->
            [id |-> IntId("1670048"),
             transcriptions |-> << [utterances |->
                << [text |-> "See you at noon", speaker |-> "2", start |-> 5],
                   [text |-> "Lunch today?", speaker |-> "1", start |-> 1] >>] >>]]
    ELSE IF conversation_id = "1668776"
    THEN [conversation |-> [id |-> IntId("1668776")]]
    ELSE IF conversation_id = "1667013"
    THEN [conversation |->
            [id |-> StrId("1667013"),
             transcriptions |-> << [utterances |->
                << [text |-> "Nice walk", speaker |-> "1", start |-> 2] >>] >>]]
    ELSE IF conversation_id = "1666284"
    THEN [conversation |-> [id |-> IntId("1666284"), transcriptions |-> <<>>]]
    ELSE <<>>

\* the calls of the two API clients that fail: the dates get_lifelogs raises
\* for, the pages the Bee conversation request raises for, the conversation
\* ids the Bee detail request raises for
NoFailure == [dates |-> {}, pages |-> {}, details |-> {}]

\* the APIs serving the records above, every call succeeding
RecordedApi == [conversations |-> BeeConversations, failing |-> NoFailure]

\* The conversations a Bee server may list besides the recorded ones: one
\* whose id comes as a string, one with a short summary only and an empty
\* transcription list.
WalkConversation ==
    [id |-> StrId("1667013"), start_time |-> "2025-05-04T09:00:00Z",
     end_time |-> "2025-05-04T09:30:00Z", summary |-> "Morning walk",
     short_summary |-> "Walk", primary_location |-> "Park"]

CallConversation ==
    [id |-> IntId("1666284"), start_time |-> "2025-05-05T10:00:00Z",
     end_time |-> "2025-05-05T10:05:00Z", short_summary |-> "Call",
     primary_location |-> "Office"]

ConversationPool ==
    {BeeConversations[i] : i \in DOMAIN BeeConversations}
        \cup {WalkConversation, CallConversation}

\* the lists a Bee server may serve: the server gives no order and may list a
\* conversation twice
ConversationLists == UNION {[1..n -> ConversationPool] : n \in 0..MaxConvs}

\* one call failing
Failures ==
    {[NoFailure EXCEPT !.dates = {d}] : d \in Dates}
        \cup {[NoFailure EXCEPT !.pages = {1}]}
        \cup {[NoFailure EXCEPT !.details = {Str(c.id)}] : c \in ConversationPool}

\* the APIs of a behaviour: any list with every call succeeding, or the
\* recorded list with one call failing
Apis ==
    {[conversations |-> c, failing |-> NoFailure] : c \in ConversationLists}
        \cup {[conversations |-> BeeConversations, failing |-> f] : f \in Failures}

\* the page size of get_conversations_async
BeePageSize == 50

\* page `page` of the Bee server's conversation list
BeeServerPage(page) ==
    SubSeq(api.conversations,
           Min((page - 1) * BeePageSize + 1, Len(api.conversations) + 1),
           Min(page * BeePageSize, Len(api.conversations)))

\* api/bee_api.py get_conversations(limit, page) for limit <= 50; a request
\* that raises is caught and answered with the empty list
get_conversations(limit, page) ==
    IF page \in api.failing.pages THEN <<>> ELSE Take(BeeServerPage(page), limit)

\* api/bee_api.py get_conversation_details; a request that raises is caught
\* and answered with the empty dict
get_conversation_details(conversation_id) ==
    IF conversation_id \in api.failing.details THEN <<>> ELSE BeeDetails(conversation_id)

\* iso_string.split("T")[0]
RECURSIVE BeforeT(_, _)
BeforeT(s, i) ==
    IF i > Len(s) THEN s
    ELSE IF SubSeq(s, i, i) = "T" THEN SubSeq(s, 1, i - 1)
    ELSE BeforeT(s, i + 1)

extract_date_from_iso(iso_string) ==
    IF iso_string = "" THEN "" ELSE BeforeT(iso_string, 1)

\* api/limitless_api.py get_lifelogs for one date, answered by the server in one page
RECURSIVE KeepNewDates(_, _)
KeepNewDates(lifelogs, existing_dates) ==
    IF lifelogs = <<>> THEN <<>>
    ELSE IF extract_date_from_iso(Get(Head(lifelogs), "startTime", "")) \in existing_dates
         THEN KeepNewDates(Tail(lifelogs), existing_dates)
         ELSE <<Head(lifelogs)>> \o KeepNewDates(Tail(lifelogs), existing_dates)

get_lifelogs(date, limit, existing_dates) ==
    LET served == SelectIdx(Lifelogs,
                     {i \in DOMAIN Lifelogs :
                        extract_date_from_iso(Lifelogs[i].startTime) = date})
        kept == KeepNewDates(served, existing_dates)
    IN IF limit > 0 /\ Len(kept) >= limit THEN Take(kept, limit) ELSE kept

(***************************************************************************)
(* DataSyncer (api/data_sync.py)                                           *)
(***************************************************************************)
\* list.sort(key=start_time, reverse=True): stable, latest first
RECURSIVE SortByStartDesc(_)
SortByStartDesc(convs) ==
    IF convs = <<>> THEN <<>>
    ELSE LET key(c) == Rank(Get(c, "start_time", ""))
             best == CHOOSE i \in DOMAIN convs : \A j \in DOMAIN convs :
                        \/ key(convs[i]) > key(convs[j])
                        \/ (key(convs[i]) = key(convs[j]) /\ i <= j)
         IN <<convs[best]>> \o SortByStartDesc(DeleteAt(convs, best))

\* get_lifelogs raises when the request fails; fetch_limitless_data catches it
fetch_limitless_data(date, limit, existing_dates) ==
    IF date \in api.failing.dates THEN <<>>
    ELSE get_lifelogs(date, limit, existing_dates)

\* the date test with < for <=: a conversation of the latest stored day passes
reached_existing_date_strict(conversation_date, latest_date) ==
    Rank(conversation_date) < Rank(latest_date)

\* conversation_date <= latest_date, both YYYY-MM-DD strings
reached_existing_date(conversation_date, latest_date) ==
    Rank(conversation_date) <= Rank(latest_date)

\* The for loop of fetch_bee_data over one sorted batch.  acc is
\* [conversations, details, existing_ids, found_existing]; latest_date is ""
\* and limit is 0 when there is none.
RECURSIVE BeeBatchLoop(_, _, _, _)
BeeBatchLoop(batch, acc, latest_date, limit) ==
    IF batch = <<>> THEN acc
    ELSE LET conversation == Head(batch)
             rest == Tail(batch)
             raw_id == Get(conversation, "id", [type |-> "none", repr |-> ""])
             conversation_id == Str(raw_id)
             conversation_date == extract_date_from_iso(Get(conversation, "start_time", ""))
             conversation_details == get_conversation_details(conversation_id)
             added == [acc EXCEPT
                         !.details = Merge(@, [k \in {Key(StrId(conversation_id))} |->
                                                  conversation_details]),
                         !.conversations = Append(@, conversation),
                         !.existing_ids = @ \cup {conversation_id}]
         IN IF Falsy(raw_id) THEN BeeBatchLoop(rest, acc, latest_date, limit)
            ELSE IF conversation_id \in acc.existing_ids
            THEN [acc EXCEPT !.found_existing = TRUE]
            ELSE IF latest_date # "" /\ conversation_date = ""
            THEN BeeBatchLoop(rest, acc, latest_date, limit)
            ELSE IF latest_date # "" /\ reached_existing_date(conversation_date, latest_date)
            THEN [acc EXCEPT !.found_existing = TRUE]
            ELSE IF conversation_details = <<>>
            THEN BeeBatchLoop(rest, acc, latest_date, limit)
            ELSE IF limit > 0 /\ Len(added.conversations) >= limit
            THEN [added EXCEPT !.found_existing = TRUE]
            ELSE BeeBatchLoop(rest, added, latest_date, limit)

\* the while loop of fetch_bee_data from page `page` on
RECURSIVE BeePageLoop(_, _, _, _, _)
BeePageLoop(page, batch_size, acc, latest_date, limit) ==
    LET batch == get_conversations(batch_size, page) IN
    IF batch = <<>> THEN acc
    ELSE LET after == BeeBatchLoop(SortByStartDesc(batch), acc, latest_date, limit) IN
         IF after.found_existing \/ Len(batch) < batch_size THEN after
         ELSE BeePageLoop(page + 1, batch_size, after, latest_date, limit)

\* fetch_bee_data; existing_ids and latest_date are {} and "" without a vector store
fetch_bee_data(existing_ids, latest_date, limit) ==
    LET batch_size == IF limit > 0 THEN Min(BeePageSize, limit) ELSE BeePageSize
        fetched == BeePageLoop(1, batch_size,
                               [conversations |-> <<>>, details |-> <<>>,
                                existing_ids |-> existing_ids, found_existing |-> FALSE],
                               latest_date, limit)
        trimmed == IF limit > 0 /\ Len(fetched.conversations) > limit
                   THEN Take(fetched.conversations, limit) ELSE fetched.conversations
    IN [conversations |-> SortByStartDesc(trimmed), details |-> fetched.details]

\* the calendar days from start_date to end_date
DateRange(start_date, end_date) ==
    SelectIdx(<<Day1, Day2>>,
              {i \in 1..2 : Rank(start_date) <= Rank(<<Day1, Day2>>[i])
                            /\ Rank(<<Day1, Day2>>[i]) <= Rank(end_date)})

\* the Limitless loop of synchronize_data over the days of the range
RECURSIVE FetchLimitlessRange(_, _, _)
FetchLimitlessRange(days, limit_per_day, existing_dates) ==
    IF days = <<>> THEN <<>>
    ELSE fetch_limitless_data(Head(days), limit_per_day, existing_dates)
         \o FetchLimitlessRange(Tail(days), limit_per_day, existing_dates)

\* synchronize_data with one try block around all its fetches and none inside
\* them: the first call that raises leaves the data as initialised
synchronize_data_one_try(start_date, end_date, limit_per_day, existing_dates) ==
    IF \/ \E i \in DOMAIN DateRange(start_date, end_date) :
             DateRange(start_date, end_date)[i] \in api.failing.dates
       \/ api.failing.pages # {}
       \/ api.failing.details # {}
    THEN [limitless |-> <<>>, bee |-> <<>>]
    ELSE [limitless |-> FetchLimitlessRange(DateRange(start_date, end_date),
                                            limit_per_day, existing_dates),
          bee |-> fetch_bee_data({}, "", limit_per_day)]

\* synchronize_data as ingest_data calls it: no vector_store, check_existing False
synchronize_data(start_date, end_date, limit_per_day, existing_dates) ==
    [limitless |-> FetchLimitlessRange(DateRange(start_date, end_date),
                                       limit_per_day, existing_dates),
     bee |-> fetch_bee_data({}, "", limit_per_day)]

\* the scan of a lifelog's contents: [summary, short_summary, transcript]
RECURSIVE ScanContents(_, _)
ScanContents(contents, acc) ==
    IF contents = <<>> THEN acc
    ELSE LET node == Head(contents)
             node_type == Get(node, "type", "")
             node_content == Get(node, "content", "")
             speaker_name == Get(node, "speakerName", "")
         IN ScanContents(Tail(contents),
              CASE node_type = "heading1" -> [acc EXCEPT !.summary = node_content]
                [] node_type = "heading2" ->
                     IF acc.short_summary = ""
                     THEN [acc EXCEPT !.short_summary = node_content] ELSE acc
                [] node_type = "blockquote" ->
                     IF speaker_name # ""
                     THEN [acc EXCEPT !.transcript =
                              @ \o speaker_name \o ": " \o node_content \o "\n"]
                     ELSE [acc EXCEPT !.transcript = @ \o node_content \o "\n"]
                [] OTHER -> acc)

\* the documents combine_data_for_vector_storage makes of the lifelogs
RECURSIVE LimitlessDocs(_)
LimitlessDocs(lifelogs) ==
    IF lifelogs = <<>> THEN <<>>
    ELSE LET lifelog == Head(lifelogs)
             got == ScanContents(Get(lifelog, "contents", <<>>),
                                 [summary |-> "", short_summary |-> "", transcript |-> ""])
         IN IF "id" \notin DOMAIN lifelog \/ got.transcript = ""
            THEN LimitlessDocs(Tail(lifelogs))
            ELSE << [id |-> lifelog.id,
                     source |-> "limitless",
                     text |-> got.transcript,
                     summary |-> got.summary,
                     short_summary |-> got.short_summary,
                     date |-> extract_date_from_iso(Get(lifelog, "startTime", "")),
                     timestamp |-> Get(lifelog, "startTime", ""),
                     metadata |-> [startTime |-> Get(lifelog, "startTime", ""),
                                   endTime |-> Get(lifelog, "endTime", ""),
                                   source_type |-> "limitless"]] >>
                 \o LimitlessDocs(Tail(lifelogs))

\* utterances.sort(key=start): stable, earliest first
RECURSIVE SortByStart(_)
SortByStart(utterances) ==
    IF utterances = <<>> THEN <<>>
    ELSE LET best == CHOOSE i \in DOMAIN utterances : \A j \in DOMAIN utterances :
                        \/ utterances[i].start < utterances[j].start
                        \/ (utterances[i].start = utterances[j].start /\ i <= j)
         IN <<utterances[best]>> \o SortByStart(DeleteAt(utterances, best))

RECURSIVE AllUtterances(_)
AllUtterances(transcriptions) ==
    IF transcriptions = <<>> THEN <<>>
    ELSE Get(Head(transcriptions), "utterances", <<>>) \o AllUtterances(Tail(transcriptions))

\* text_parts: one line per utterance that has a text
RECURSIVE TextParts(_)
TextParts(utterances) ==
    IF utterances = <<>> THEN <<>>
    ELSE LET u == Head(utterances) IN
         (IF "text" \in DOMAIN u
          THEN <<(IF "speaker" \in DOMAIN u THEN "Speaker " \o u.speaker \o ": " ELSE "")
                 \o u.text>>
          ELSE <<>>)
         \o TextParts(Tail(utterances))

\* "\n".join(parts)
RECURSIVE JoinLines(_)
JoinLines(parts) ==
    IF parts = <<>> THEN ""
    ELSE IF Len(parts) = 1 THEN parts[1]
    ELSE parts[1] \o "\n" \o JoinLines(Tail(parts))

\* the transcript text combine_data_for_vector_storage extracts from one
\* conversation's details
TranscriptText(conversation_details) ==
    LET inner == IF "conversation" \in DOMAIN conversation_details
                 THEN conversation_details.conversation ELSE conversation_details
        utterances == AllUtterances(Get(inner, "transcriptions", <<>>))
        ordered == IF utterances # <<>>
                      /\ \A i \in DOMAIN utterances : "start" \in DOMAIN utterances[i]
                   THEN SortByStart(utterances) ELSE utterances
    IN IF "transcriptions" \in DOMAIN inner THEN JoinLines(TextParts(ordered)) ELSE ""

\* the text of a Bee document: transcript, else summary, else short_summary
BeeText(conversation, details) ==
    LET conversation_details ==
            IF Key(conversation.id) \in DOMAIN details
            THEN details[Key(conversation.id)] ELSE <<>>
        transcript == TranscriptText(conversation_details)
    IN IF transcript # "" THEN transcript
       ELSE IF Get(conversation, "summary", "") # "" THEN conversation.summary
       ELSE Get(conversation, "short_summary", "")

\* the documents combine_data_for_vector_storage makes of the Bee conversations
RECURSIVE BeeDocs(_, _)
BeeDocs(conversations, details) ==
    IF conversations = <<>> THEN <<>>
    ELSE LET conversation == Head(conversations)
             raw_id == Get(conversation, "id", [type |-> "none", repr |-> ""])
         IN IF Falsy(raw_id) \/ BeeText(conversation, details) = ""
            THEN BeeDocs(Tail(conversations), details)
            ELSE << [id |-> "bee_" \o Str(raw_id),
                     source |-> "bee",
                     timestamp |-> Get(conversation, "start_time", ""),
                     text |-> BeeText(conversation, details),
                     summary |-> Get(conversation, "summary", ""),
                     short_summary |-> Get(conversation, "short_summary", ""),
                     date |-> extract_date_from_iso(Get(conversation, "start_time", "")),
                     metadata |-> [startTime |-> Get(conversation, "start_time", ""),
                                   endTime |-> Get(conversation, "end_time", ""),
                                   location |-> Get(conversation, "primary_location", ""),
                                   source_type |-> "bee"]] >>
                 \o BeeDocs(Tail(conversations), details)

combine_data_for_vector_storage(data) ==
    LimitlessDocs(Get(data, "limitless", <<>>))
    \o BeeDocs(Get(Get(data, "bee", <<>>), "conversations", <<>>),
               Get(Get(data, "bee", <<>>), "details", <<>>))

(***************************************************************************)
(* DataIngestion.ingest_data (storage/data_ingestion.py)                   *)
(***************************************************************************)
\* the chunking loop of ingest_data
RECURSIVE ChunkDocuments(_)
ChunkDocuments(docs) ==
    IF docs = <<>> THEN <<>>
    ELSE LET doc == Head(docs)
             text == Get(doc, "text", "")
         IN (IF text = "" THEN <<>>
             ELSE IF Len(text) < LongTextThreshold THEN <<doc>>
             ELSE embed_chunked_document(text, DropField(doc, "text"),
                                         IngestChunkSize, IngestOverlap))
            \o ChunkDocuments(Tail(docs))

\* ingest_data on the store of its DataIngestion, when nothing raises
ingest_data(st, start_date, end_date, limit_per_day, existing_dates) ==
    LET data == synchronize_data(start_date, end_date, limit_per_day, existing_dates)
        docs == combine_data_for_vector_storage(data)
        chunked_documents == ChunkDocuments(docs)
        counts(added) == [total_documents |-> Len(docs),
                          processed_documents |-> added,
                          added_to_vector_store |-> added]
    IN IF chunked_documents = <<>>
       THEN [index |-> st.index, documents |-> st.documents,
             ret |-> counts(0), saves |-> FALSE]
       ELSE [index |-> st.index \o encode(TextsOf(chunked_documents)),
             documents |-> st.documents \o StampBatch(chunked_documents, Len(st.index)),
             ret |-> counts(Len(chunked_documents)),
             saves |-> TRUE]

(***************************************************************************)
(* The state machine.  `last` records the last call: its name, the         *)
(* instance, the argument, what it returned (when it returned), whether it *)
(* raised, the fault that struck it, the instance's state before it, and   *)
(* the call before it when the two form a pair a property speaks of.       *)
(***************************************************************************)
NoCall == [op |-> "none", store |-> "", arg |-> <<>>, ret |-> <<>>]

\* the call before this one, kept when this call repeats an ingest_data of
\* the same instance or constructs an instance right after an add_documents
Remembered(op, s) ==
    IF \/ (op = "ingest_data" /\ last.op = "ingest_data" /\ last.store = s
           /\ ~last.raised /\ last.fault = "none")
       \/ (op = "construct" /\ last.op = "add_documents"
           /\ ~last.raised /\ last.fault = "none")
    THEN [op |-> last.op, store |-> last.store, arg |-> last.arg, ret |-> last.ret]
    ELSE NoCall

Called(op, s, arg, ret, raised, fault) ==
    [op |-> op, store |-> s, arg |-> arg, ret |-> ret, raised |-> raised,
     fault |-> fault, pre |-> Store(s), prev |-> Remembered(op, s)]

\* what can strike a mutating call: nothing, encode raising, or _save ending
\* other than "ok"
Faults == {"none", "encode_raises"} \cup (SaveOutcomes \ {"ok"})

SaveOutcome(fault) == IF fault \in SaveOutcomes THEN fault ELSE "ok"

\* The end of a mutating call of instance s.  r is its effect when encode
\* does not raise, broken its in-memory state when encode raises.  _save
\* swallows what its writes raise; a killed process takes the instance with it.
Finish(s, op, arg, r, broken, fault) ==
    /\ faults' = IF fault = "none" THEN faults ELSE faults + 1
    /\ UNCHANGED api
    /\ IF fault = "encode_raises"
       THEN /\ index' = [index EXCEPT ![s] = broken.index]
            /\ documents' = [documents EXCEPT ![s] = broken.documents]
            /\ UNCHANGED <<alive, disk>>
            /\ last' = Called(op, s, arg, "raised", TRUE, fault)
       ELSE IF fault \in KillOutcomes
       THEN /\ index' = [index EXCEPT ![s] = IndexFlatL2]
            /\ documents' = [documents EXCEPT ![s] = <<>>]
            /\ alive' = [alive EXCEPT ![s] = FALSE]
            /\ disk' = save(r.index, r.documents, disk, fault)
            /\ last' = Called(op, s, arg, "killed", FALSE, fault)
       ELSE /\ index' = [index EXCEPT ![s] = r.index]
            /\ documents' = [documents EXCEPT ![s] = r.documents]
            /\ UNCHANGED alive
            /\ disk' = IF r.saves THEN save(r.index, r.documents, disk, SaveOutcome(fault))
                       ELSE disk
            /\ last' = Called(op, s, arg, r.ret, FALSE, fault)

\* a fault strikes only a call that reaches the step it strikes
Strikes(fault, r) == fault = "none" \/ (r.saves /\ faults < MaxFaults)

\* the documents handed to add_documents
DocA == [id |-> "a", source |-> "bee", text |-> "hello world", date |-> Day1]
DocB == [id |-> "b", source |-> "limitless", text |-> "good morning all", date |-> Day2]
DocA2 == [id |-> "a", source |-> "bee", text |-> "bye", date |-> Day2]
DocE == [id |-> "e", source |-> "bee", text |-> "", date |-> Day1]
InputDocs == {DocA, DocB, DocA2, DocE}

Batches == UNION {[1..n -> InputDocs] : n \in 0..MaxBatch}

\* the batches of the calls a fault may strike
FaultBatches == UNION {[1..n -> {DocA, DocB}] : n \in 0..MaxBatch}

Ids == {"a", "b", "e", "zz"}

Init ==
    /\ index = [s \in Stores |-> IndexFlatL2]
    /\ documents = [s \in Stores |-> <<>>]
    /\ alive = [s \in Stores |-> TRUE]
    /\ disk = [index |-> Missing, docs |-> Missing]
    /\ faults = 0
    /\ api = RecordedApi
    /\ last = [op |-> "none", store |-> "", arg |-> <<>>, ret |-> <<>>, raised |-> FALSE,
               fault |-> "none", pre |-> [index |-> <<>>, documents |-> <<>>],
               prev |-> NoCall]

\* FAISSVectorStore(): a new instance in place of s, loaded from the files
Construct(s) ==
    /\ index' = [index EXCEPT ![s] = load(disk).index]
    /\ documents' = [documents EXCEPT ![s] = load(disk).documents]
    /\ alive' = [alive EXCEPT ![s] = TRUE]
    /\ UNCHANGED <<disk, faults, api>>
    /\ last' = Called("construct", s, <<>>, <<>>, FALSE, "none")

AddDocuments(s, batch, fault) ==
    /\ alive[s]
    /\ Len(documents[s]) + Len(batch) <= MaxDocs
    /\ Strikes(fault, add_documents(Store(s), batch))
    /\ Finish(s, "add_documents", batch, add_documents(Store(s), batch), Store(s), fault)

DeleteDocument(s, doc_id, fault) ==
    /\ alive[s]
    /\ Strikes(fault, delete_document(Store(s), doc_id))
    /\ fault = "encode_raises" => Len(documents[s]) > 1
    /\ Finish(s, "delete_document", doc_id, delete_document(Store(s), doc_id),
              IF Matches(documents[s], doc_id) = {} THEN Store(s)
              ELSE delete_document_encode_raises(Store(s), doc_id),
              fault)

Clear(s, fault) ==
    /\ alive[s]
    /\ fault # "encode_raises"
    /\ Strikes(fault, clear(Store(s)))
    /\ Finish(s, "clear", <<>>, clear(Store(s)), Store(s), fault)

IngestArgs ==
    {[start_date |-> a, end_date |-> b, limit_per_day |-> n] :
        a \in Dates, b \in Dates, n \in {1, 50}}

IngestData(s, a, fault) ==
    \E r \in {ingest_data(Store(s), a.start_date, a.end_date, a.limit_per_day, {})} :
    /\ alive[s]
    /\ Len(r.documents) <= MaxIngested
    /\ Strikes(fault, r)
    /\ Finish(s, "ingest_data", a, r, Store(s), fault)

\* the queries, result counts and filter arguments of the read calls
Queries == {"", "hello"}
Ks == {1, 10}
Sources == {"bee", "limitless"}

\* a call that only reads: nothing changes but the record of the call
Read(s, op, arg, ret) ==
    /\ alive[s]
    /\ UNCHANGED <<index, documents, alive, disk, faults, api>>
    /\ last' = Called(op, s, arg, ret, FALSE, "none")

Search(s, query, k) ==
    Read(s, "search", [query |-> query, k |-> k], search(Store(s), query, k, NoFilter))

SearchByDate(s, query, date, k) ==
    Read(s, "search_by_date", [query |-> query, date |-> date, k |-> k],
         search_by_date(Store(s), query, date, k))

SearchBySource(s, query, source, k) ==
    Read(s, "search_by_source", [query |-> query, source |-> source, k |-> k],
         search_by_source(Store(s), query, source, k))

SearchConversations(s, query, k, date, source) ==
    Read(s, "search_conversations",
         [query |-> query, k |-> k, date |-> date, source |-> source],
         search_conversations(Store(s), query, k, date, source))

GetDocumentById(s, doc_id) ==
    Read(s, "get_document_by_id", doc_id, get_document_by_id(Store(s), doc_id))

\* One instance, nothing failing: the calls of a script or of the web
\* process on its store, and the construction of a new instance over the files.
Next ==
    \/ Construct(Main)
    \/ \E batch \in Batches : AddDocuments(Main, batch, "none")
    \/ \E doc_id \in Ids : DeleteDocument(Main, doc_id, "none")
    \/ Clear(Main, "none")
    \/ \E a \in IngestArgs : IngestData(Main, a, "none")

Spec == Init /\ [][Next]_vars

\* The same instance with the embedding model and the file system allowed
\* to fail and the process allowed to be killed inside _save.
NextFault ==
    \/ Construct(Main)
    \/ \E batch \in FaultBatches, fault \in Faults : AddDocuments(Main, batch, fault)
    \/ \E doc_id \in {"a", "b"}, fault \in Faults : DeleteDocument(Main, doc_id, fault)
    \/ \E fault \in Faults : Clear(Main, fault)

SpecFault == Init /\ [][NextFault]_vars

\* The same instance with nothing failing but the process being killed
\* inside _save.
NextKill ==
    \/ Construct(Main)
    \/ \E batch \in FaultBatches, fault \in {"none"} \cup KillOutcomes :
          AddDocuments(Main, batch, fault)
    \/ \E doc_id \in {"a", "b"}, fault \in {"none"} \cup KillOutcomes :
          DeleteDocument(Main, doc_id, fault)
    \/ \E fault \in {"none"} \cup KillOutcomes : Clear(Main, fault)

SpecKill == Init /\ [][NextKill]_vars

\* The store filled and queried, nothing failing.
NextSearch ==
    \/ \E doc \in InputDocs : AddDocuments(Main, <<doc>>, "none")
    \/ \E doc_id \in Ids : DeleteDocument(Main, doc_id, "none")
    \/ \E a \in IngestArgs : IngestData(Main, a, "none")
    \/ \E query \in Queries, k \in Ks : Search(Main, query, k)
    \/ \E query \in Queries, date \in Dates, k \in Ks : SearchByDate(Main, query, date, k)
    \/ \E query \in Queries, source \in Sources : SearchBySource(Main, query, source, 10)
    \/ \E query \in Queries, date \in {"", Day1}, source \in {"", "bee"} :
          SearchConversations(Main, query, 10, date, source)
    \/ \E doc_id \in Ids : GetDocumentById(Main, doc_id)

SpecSearch == Init /\ [][NextSearch]_vars

\* the texts chunk_text is given: every string of at most MaxText pieces,
\* a piece being a letter or a sentence end (full stop and space)
Pieces == {"a", "b", ". "}

RECURSIVE TextsOfLength(_)
TextsOfLength(n) ==
    IF n = 0 THEN {""}
    ELSE {t \o c : t \in TextsOfLength(n - 1), c \in Pieces}

Texts == UNION {TextsOfLength(n) : n \in 0..MaxText}

ChunkArgs ==
    {[text |-> t, chunk_size |-> c, overlap |-> o] :
        t \in Texts, c \in 1..MaxChunk, o \in 0..MaxChunk}

\* a caller about to call chunk_text with arguments a
InitChunk ==
    /\ index = [s \in Stores |-> IndexFlatL2]
    /\ documents = [s \in Stores |-> <<>>]
    /\ alive = [s \in Stores |-> TRUE]
    /\ disk = [index |-> Missing, docs |-> Missing]
    /\ faults = 0
    /\ api = RecordedApi
    /\ \E a \in ChunkArgs :
          last = [op |-> "chunk_text_args", store |-> "", arg |-> a, ret |-> <<>>,
                  raised |-> FALSE, fault |-> "none",
                  pre |-> [index |-> <<>>, documents |-> <<>>], prev |-> NoCall]

\* DocumentEmbedder.chunk_text(text, chunk_size, overlap): nothing in it raises
ChunkText ==
    /\ last.op = "chunk_text_args"
    /\ UNCHANGED <<index, documents, alive, disk, faults, api>>
    /\ last' = [last EXCEPT !.op = "chunk_text",
                            !.ret = chunk_text(last.arg.text, last.arg.chunk_size,
                                               last.arg.overlap)]

\* chunk_text applied to each of the arguments
NextChunk == ChunkText

SpecChunk == InitChunk /\ [][NextChunk]_vars

(***************************************************************************)
(* The data synchronizer against APIs that differ from run to run, and     *)
(* the store it is given to look for what it already holds.                *)
(***************************************************************************)
\* FAISSVectorStore.get_document_ids(source): the ids stored for a source
get_document_ids(st, source) ==
    {Get(st.documents[i], "id", "") :
        i \in {j \in DOMAIN st.documents :
                 /\ Get(st.documents[j], "source", "") = source
                 /\ Get(st.documents[j], "id", "") # ""}}

\* FAISSVectorStore.get_latest_document_date(source): the greatest date
\* stored for a source, "" (None) when there is none
get_latest_document_date(st, source) ==
    LET dates == {Get(st.documents[i], "date", "") :
                     i \in {j \in DOMAIN st.documents :
                              Get(st.documents[j], "source", "") = source}} \ {""}
    IN IF dates = {} THEN ""
       ELSE CHOOSE d \in dates : \A e \in dates : Rank(e) <= Rank(d)

\* s.replace(old, new)
RECURSIVE Replace(_, _, _)
Replace(s, old, new) ==
    IF Len(s) < Len(old) THEN s
    ELSE IF SubSeq(s, 1, Len(old)) = old
    THEN new \o Replace(SubSeq(s, Len(old) + 1, Len(s)), old, new)
    ELSE SubSeq(s, 1, 1) \o Replace(SubSeq(s, 2, Len(s)), old, new)

\* existing_ids as fetch_bee_data computes it from the vector store
existing_bee_ids(st) == {Replace(id, "bee_", "") : id \in get_document_ids(st, "bee")}

\* fetch_bee_data(vector_store=s, limit=limit)
FetchBeeData(s, limit) ==
    \E existing_ids \in {existing_bee_ids(Store(s))},
       latest_date \in {get_latest_document_date(Store(s), "bee")} :
        Read(s, "fetch_bee_data", [limit |-> limit],
             fetch_bee_data(existing_ids, latest_date, limit))

\* synchronize_data(start_date, end_date, limit_per_day) of the DataSyncer of s
SynchronizeData(s, a) ==
    Read(s, "synchronize_data", a,
         synchronize_data(a.start_date, a.end_date, a.limit_per_day, {}))

\* combine_data_for_vector_storage(data) on what synchronize_data returned
CombineData ==
    /\ last.op = "synchronize_data"
    /\ UNCHANGED <<index, documents, alive, disk, faults, api>>
    /\ last' = [last EXCEPT !.op = "combine_data_for_vector_storage",
                            !.arg = last.ret,
                            !.ret = combine_data_for_vector_storage(last.ret)]

\* the limits fetch_bee_data is given; 0 stands for None
BeeLimits == {0, 1, 2}

\* the ingest runs that fill the store here: those of the second day
LateIngestArgs == {a \in IngestArgs : a.start_date = Day2 /\ a.end_date = Day2}

InitSync ==
    /\ index = [s \in Stores |-> IndexFlatL2]
    /\ documents = [s \in Stores |-> <<>>]
    /\ alive = [s \in Stores |-> TRUE]
    /\ disk = [index |-> Missing, docs |-> Missing]
    /\ faults = 0
    /\ api \in Apis
    /\ last = [op |-> "none", store |-> "", arg |-> <<>>, ret |-> <<>>, raised |-> FALSE,
               fault |-> "none", pre |-> [index |-> <<>>, documents |-> <<>>],
               prev |-> NoCall]

NextSync ==
    \/ \E a \in LateIngestArgs : IngestData(Main, a, "none")
    \/ \E limit \in BeeLimits : FetchBeeData(Main, limit)
    \/ \E a \in IngestArgs : SynchronizeData(Main, a)
    \/ CombineData

SpecSync == InitSync /\ [][NextSync]_vars

(***************************************************************************)
(* Two instances over the same files: the vector_store a script or the web *)
(* module creates next to the one inside its DataIngestion.                *)
(***************************************************************************)
\* vector_store.get_stats() of GET /api/calendar
GetStats(s) == Read(s, "get_stats", <<>>, get_stats(Store(s)))

\* the ids asked for: one handed to add_documents, one that ingest_data stores
SharedIds == {"a", "L2"}

NextTwo ==
    \/ \E s \in Stores : Construct(s)
    \/ \E s \in Stores, doc \in {DocA, DocB} : AddDocuments(s, <<doc>>, "none")
    \/ \E a \in LateIngestArgs : IngestData(Other, a, "none")
    \/ \E doc_id \in SharedIds : GetDocumentById(Main, doc_id)
    \/ GetStats(Main)

SpecTwo == Init /\ [][NextTwo]_vars

(***************************************************************************)
(* repopulate_limitless_data.py: the script that fetches the lifelogs of   *)
(* the last days again and puts them in the place of the stored Limitless  *)
(* documents.                                                              *)
(***************************************************************************)
\* the day the script runs
Today == Day2

\* get_date_range(days): today first
get_date_range(days) == Take(<<Today, Day1>>, days)

\* the lines extract_text_from_lifelog collects from the content nodes
RECURSIVE NodeLines(_)
NodeLines(contents) ==
    IF contents = <<>> THEN <<>>
    ELSE LET node == Head(contents)
             content == Get(node, "content", "")
         IN (IF content = "" THEN <<>>
             ELSE IF Get(node, "speakerName", "") # ""
             THEN <<node.speakerName \o ": " \o content>>
             ELSE <<content>>)
            \o NodeLines(Tail(contents))

extract_text_from_lifelog(lifelog) ==
    IF NodeLines(Get(lifelog, "contents", <<>>)) # <<>>
    THEN JoinLines(NodeLines(Get(lifelog, "contents", <<>>)))
    ELSE Get(lifelog, "title", "")

\* int(c) for a decimal digit
DigitValue(c) ==
    CASE c = "0" -> 0 [] c = "1" -> 1 [] c = "2" -> 2 [] c = "3" -> 3 [] c = "4" -> 4
      [] c = "5" -> 5 [] c = "6" -> 6 [] c = "7" -> 7 [] c = "8" -> 8 [] c = "9" -> 9

RECURSIVE Number(_)
Number(digits) ==
    IF digits = "" THEN 0
    ELSE Number(SubSeq(digits, 1, Len(digits) - 1)) * 10
         + DigitValue(SubSeq(digits, Len(digits), Len(digits)))

\* the seconds from the start of its month to the time YYYY-MM-DDTHH:MM:SSZ
SecondsInMonth(iso_string) ==
    ((Number(Slice(iso_string, 8, 10)) * 24 + Number(Slice(iso_string, 11, 13))) * 60
     + Number(Slice(iso_string, 14, 16))) * 60 + Number(Slice(iso_string, 17, 19))

\* (end - start).total_seconds() for two times of one month
duration(lifelog) ==
    IF "startTime" \in DOMAIN lifelog /\ "endTime" \in DOMAIN lifelog
    THEN SecondsInMonth(lifelog.endTime) - SecondsInMonth(lifelog.startTime)
    ELSE 0

format_lifelog_for_vector_store(lifelog) ==
    LET text == extract_text_from_lifelog(lifelog) IN
    [id |-> "limitless_" \o Get(lifelog, "id", ""),
     source |-> "limitless",
     text |-> text,
     summary |-> IF Get(lifelog, "title", "") # "" THEN lifelog.title
                 ELSE IF text # ""
                 THEN Slice(text, 0, 100) \o (IF Len(text) > 100 THEN "..." ELSE "")
                 ELSE "",
     date |-> extract_date_from_iso(Get(lifelog, "startTime", "")),
     timestamp |-> Get(lifelog, "startTime", ""),
     metadata |-> [startTime |-> Get(lifelog, "startTime", ""),
                   endTime |-> Get(lifelog, "endTime", ""),
                   duration |-> duration(lifelog),
                   title |-> Get(lifelog, "title", ""),
                   location |-> "Limitless"]]

\* date_documents of one date: the formatted lifelogs that have text and date
RECURSIVE DateDocuments(_)
DateDocuments(lifelogs) ==
    IF lifelogs = <<>> THEN <<>>
    ELSE LET document == format_lifelog_for_vector_store(Head(lifelogs)) IN
         (IF document.text # "" /\ document.date # "" THEN <<document>> ELSE <<>>)
         \o DateDocuments(Tail(lifelogs))

\* all_documents over the dates
RECURSIVE AllDocuments(_, _)
AllDocuments(dates, limit_per_day) ==
    IF dates = <<>> THEN <<>>
    ELSE DateDocuments(get_lifelogs(Head(dates), limit_per_day, {}))
         \o AllDocuments(Tail(dates), limit_per_day)

\* the batch size of the embedding loop
RepopulateBatch == 32

\* the loop that hands the documents to add_documents, a batch at a time
RECURSIVE AddInBatches(_, _)
AddInBatches(st, docs) ==
    IF docs = <<>> THEN st
    ELSE LET r == add_documents(st, Take(docs, RepopulateBatch)) IN
         AddInBatches([index |-> r.index, documents |-> r.documents],
                      SubSeq(docs, Min(RepopulateBatch, Len(docs)) + 1, Len(docs)))

\* fetch_and_process_limitless_data on the store st it loaded, nothing raising
fetch_and_process_limitless_data(st, days, limit_per_day) ==
    LET all_documents == AllDocuments(get_date_range(days), limit_per_day)
        limitless == {i \in DOMAIN st.documents :
                        Get(st.documents[i], "source", "") = "limitless"}
        filtered_documents == SelectIdx(st.documents, DOMAIN st.documents \ limitless)
        kept == [index |-> st.index,
                 documents |-> IF limitless # {} THEN filtered_documents ELSE st.documents]
        added == AddInBatches(kept, all_documents)
    IN IF all_documents = <<>>
       THEN [index |-> st.index, documents |-> st.documents, ret |-> None, saves |-> FALSE]
       ELSE [index |-> added.index, documents |-> added.documents, ret |-> None,
             saves |-> TRUE]

\* a run of the script: it constructs its own instance s from the files
Repopulate(s, days, limit_per_day) ==
    \E r \in {fetch_and_process_limitless_data(load(disk), days, limit_per_day)} :
    /\ Len(r.index) <= MaxIngested
    /\ alive' = [alive EXCEPT ![s] = TRUE]
    /\ index' = [index EXCEPT ![s] = r.index]
    /\ documents' = [documents EXCEPT ![s] = r.documents]
    /\ disk' = IF r.saves THEN save(r.index, r.documents, disk, "ok") ELSE disk
    /\ UNCHANGED <<faults, api>>
    /\ last' = [Called("repopulate", s, [days |-> days, limit_per_day |-> limit_per_day],
                       r.ret, FALSE, "none")
                EXCEPT !.pre = load(disk)]

\* The store filled by add_documents and ingest_data, then repopulated.
NextRepopulate ==
    \/ \E doc \in {DocA, DocB} : AddDocuments(Main, <<doc>>, "none")
    \/ \E a \in LateIngestArgs : IngestData(Main, a, "none")
    \/ \E doc_id \in {"a", "b"} : DeleteDocument(Main, doc_id, "none")
    \/ \E days \in {1, 2}, limit_per_day \in {1, 10} : Repopulate(Main, days, limit_per_day)

SpecRepopulate == Init /\ [][NextRepopulate]_vars

(***************************************************************************)
(* Properties.  Each is stated of the instance Main and of `last`, the     *)
(* record of the call that produced the current state.                     *)
(***************************************************************************)
\* the faults a caller can be told about: encode raising, or a file
\* operation of _save raising
ReportableFaults == {"encode_raises"} \cup (SaveOutcomes \ ({"ok"} \cup KillOutcomes))

\* the documents of docs whose text is neither empty nor absent
WithText(docs) == {i \in DOMAIN docs : Get(docs[i], "text", "") # ""}

\* the positions of docs whose date starts with date
Dated(docs, date) == {i \in DOMAIN docs : date_filter(docs[i], date)}

\* C1: after any sequence of add_documents, delete_document and clear calls
\* (and of ingest_data and reconstructions) index.ntotal == len(documents)
\* and documents[i].vector_id == i at every position; after a delete_document
\* that found its document, the N-1 survivors carry exactly the vector_ids
\* 0..N-2.
C1_VectorIdIsPosition ==
    /\ Len(index[Main]) = Len(documents[Main])
    /\ \A i \in DOMAIN documents[Main] :
          Get(documents[Main][i], "vector_id", -1) = i - 1
    /\ (last.op = "delete_document" /\ last.ret = TRUE) =>
          /\ Len(documents[Main]) = Len(last.pre.documents) - 1
          /\ {Get(documents[Main][i], "vector_id", -1) : i \in DOMAIN documents[Main]}
                = 0 .. (Len(last.pre.documents) - 2)

\* C1's case: delete_document has removed the first of two documents, so the
\* survivor had vector_id 1 before the call
C1_Witness ==
    /\ last.op = "delete_document"
    /\ last.ret = TRUE
    /\ Len(last.pre.documents) = 2
    /\ Get(last.pre.documents[1], "id", "") = last.arg
    /\ Len(documents[Main]) = 1

\* C2: after any sequence of add_documents, delete_document and clear calls
\* the vector at index position i is the embedding of documents[i].text, for
\* every position i.
C2_VectorIsEmbeddingOfText ==
    /\ DOMAIN index[Main] = DOMAIN documents[Main]
    /\ \A i \in DOMAIN documents[Main] :
          index[Main][i] = Embed(Get(documents[Main][i], "text", ""))

\* C2's case: a delete-triggered rebuild has left a survivor whose text is
\* not the text of the deleted first document
C2_Witness ==
    /\ last.op = "delete_document"
    /\ last.ret = TRUE
    /\ Get(last.pre.documents[1], "id", "") = last.arg
    /\ Len(documents[Main]) >= 1
    /\ Get(documents[Main][1], "text", "") # Get(last.pre.documents[1], "text", "")

\* C3: add_documents keeps every document whose text is empty or absent out
\* of the store and out of its return value, also in a batch that mixes
\* them with documents that have text; so no stored document has empty or
\* absent text.
C3_NoEmptyTextStored ==
    /\ WithText(documents[Main]) = DOMAIN documents[Main]
    /\ last.op = "add_documents" =>
          /\ last.ret = Cardinality(WithText(last.arg))
          /\ Len(documents[Main]) = Len(last.pre.documents) + Cardinality(WithText(last.arg))

\* C4: add_documents is all-or-nothing: when encode or a file operation of
\* _save fails during the call, the call raises to its caller and the index
\* and the document list in memory are as they were before the call.
C4_AddAllOrNothing ==
    (last.op = "add_documents" /\ last.fault \in ReportableFaults) =>
        /\ last.raised
        /\ index[Main] = last.pre.index
        /\ documents[Main] = last.pre.documents

\* C5: after the process is killed at any point of _save, an instance
\* constructed from the files has index.ntotal == len(documents).
C5_KilledSaveLeavesMatchingPair ==
    (last.op = "construct" /\ faults > 0) => Len(index[Main]) = Len(documents[Main])

\* C6: construction loads the two files as a pair: when both parse, the
\* instance holds exactly what they hold; when either is missing or does not
\* parse, the index and the document list are both empty.  It never holds
\* the content of one file next to the empty fallback for the other.
C6_LoadsAsPair ==
    last.op = "construct" =>
        IF disk.index.state = "ok" /\ disk.docs.state = "ok"
        THEN index[Main] = disk.index.data /\ documents[Main] = disk.docs.data
        ELSE index[Main] = IndexFlatL2 /\ documents[Main] = <<>>

\* C6's case: an instance constructed over a readable, non-empty index file
\* whose documents file is missing or does not parse
C6_Witness ==
    /\ last.op = "construct"
    /\ disk.index.state = "ok"
    /\ Len(disk.index.data) > 0
    /\ disk.docs.state # "ok"

\* C7: an ingest_data that repeats the previous ingest_data (same date
\* range, the APIs returning the same records, nothing else in between)
\* returns added_to_vector_store == 0 and leaves the document list and the
\* index size as they were.
C7_IngestTwiceAddsNothing ==
    (last.op = "ingest_data" /\ last.prev.op = "ingest_data" /\ last.prev.arg = last.arg) =>
        /\ last.ret.added_to_vector_store = 0
        /\ documents[Main] = last.pre.documents
        /\ Len(index[Main]) = Len(last.pre.index)

\* C8: after any sequence of add_documents and ingest_data calls no two
\* stored documents of the same source have the same id.
C8_IdsUniquePerSource ==
    \A i, j \in DOMAIN documents[Main] :
        (i # j /\ Get(documents[Main][i], "source", "") = Get(documents[Main][j], "source", ""))
            => Get(documents[Main][i], "id", "") # Get(documents[Main][j], "id", "")

\* C9: after add_documents([d]) has saved, an instance constructed over the
\* same files holds as many documents as the first one did, and its
\* get_document_by_id(d.id) is d in every field but vector_id.
C9_PersistenceRoundTrip ==
    (/\ last.op = "construct"
     /\ last.prev.op = "add_documents"
     /\ Len(last.prev.arg) = 1
     /\ last.prev.ret = 1) =>
        /\ Len(documents[Main]) = Len(last.pre.documents)
        /\ DropField(get_document_by_id(Store(Main), Get(last.prev.arg[1], "id", "")),
                     "vector_id")
              = DropField(last.prev.arg[1], "vector_id")

\* C10: search_by_date with an empty query is a pure filter: it returns the
\* stored documents whose date matches, up to k of them.
C10_EmptyQueryFiltersByDate ==
    (last.op = "search_by_date" /\ last.arg.query = "") =>
        /\ Len(last.ret) = Min(last.arg.k, Cardinality(Dated(last.pre.documents, last.arg.date)))
        /\ \A i \in DOMAIN last.ret :
              \E j \in Dated(last.pre.documents, last.arg.date) :
                  DropField(last.ret[i], "score") = last.pre.documents[j]

\* the calls that end in FAISSVectorStore.search
SearchOps == {"search", "search_by_date", "search_by_source", "search_conversations"}

\* the filter a recorded search call hands to search
FilterOf(call) ==
    CASE call.op = "search" -> NoFilter
      [] call.op = "search_by_date" -> DateFilter(call.arg.date)
      [] call.op = "search_by_source" -> SourceFilter(call.arg.source)
      [] call.op = "search_conversations" ->
            IF call.arg.date # "" /\ call.arg.source # ""
            THEN BothFilter(call.arg.date, call.arg.source)
            ELSE IF call.arg.date # "" THEN DateFilter(call.arg.date)
            ELSE IF call.arg.source # "" THEN SourceFilter(call.arg.source)
            ELSE NoFilter

\* the positions of docs that satisfy filter f
Satisfying(docs, f) == {i \in DOMAIN docs : Passes(f, docs[i])}

\* C11: search with an empty query, or on a store holding no documents,
\* returns the empty list for every k and every filter and leaves the index
\* and the document list as they were.
C11_EmptyQueryOrStoreGivesNothing ==
    (last.op \in SearchOps /\ (last.arg.query = "" \/ Len(last.pre.documents) = 0)) =>
        /\ last.ret = <<>>
        /\ ~last.raised
        /\ index[Main] = last.pre.index
        /\ documents[Main] = last.pre.documents

\* C11's case: a filtered search with an empty query on a store that holds
\* documents the filter lets through
C11_Witness ==
    /\ last.op \in SearchOps
    /\ last.arg.query = ""
    /\ FilterOf(last).kind # "none"
    /\ Satisfying(last.pre.documents, FilterOf(last)) # {}

\* C12: for a non-empty query and k >= 1, with or without a filter, search
\* returns at most k results in order of non-increasing score, each a stored
\* document with the score of its own vector attached.
C12_AtMostKRankedByScore ==
    (last.op \in SearchOps /\ last.arg.query # "" /\ last.arg.k >= 1) =>
        /\ Len(last.ret) <= last.arg.k
        /\ \A i \in 1 .. (Len(last.ret) - 1) :
              last.ret[i].score[1] * last.ret[i + 1].score[2]
                 >= last.ret[i + 1].score[1] * last.ret[i].score[2]
        /\ \A i \in DOMAIN last.ret :
              \E j \in DOMAIN last.pre.documents :
                 /\ DropField(last.ret[i], "score") = last.pre.documents[j]
                 /\ last.ret[i].score
                       = <<1, 1 + L2(Embed(last.arg.query), last.pre.index[j])>>

\* C12's case: two results of different scores, the better one stored
\* after the other
C12_Witness ==
    /\ last.op \in SearchOps
    /\ last.arg.query # ""
    /\ Len(last.ret) = 2
    /\ Len(last.pre.documents) = 2
    /\ last.ret[1].score # last.ret[2].score
    /\ DropField(last.ret[1], "score") = last.pre.documents[2]
    /\ DropField(last.ret[2], "score") = last.pre.documents[1]

\* C13: every result of search_by_source(q, s, k) has source s, every
\* result of search_by_date(q, d, k) has a date that starts with d, and every
\* result of search_conversations given both satisfies both.
C13_ResultsSatisfyFilter ==
    /\ last.op = "search_by_source" =>
          \A i \in DOMAIN last.ret : Get(last.ret[i], "source", "") = last.arg.source
    /\ last.op = "search_by_date" =>
          \A i \in DOMAIN last.ret :
             /\ Get(last.ret[i], "date", "") # ""
             /\ StartsWith(Get(last.ret[i], "date", ""), last.arg.date)
    /\ (last.op = "search_conversations" /\ last.arg.date # "" /\ last.arg.source # "") =>
          \A i \in DOMAIN last.ret :
             /\ Get(last.ret[i], "source", "") = last.arg.source
             /\ Get(last.ret[i], "date", "") # ""
             /\ StartsWith(Get(last.ret[i], "date", ""), last.arg.date)

\* C13's case: search_conversations with date and source returns a document
\* while the store also holds a nearer document that fails the filter
C13_Witness ==
    /\ last.op = "search_conversations"
    /\ last.arg.date # ""
    /\ last.arg.source # ""
    /\ Len(last.ret) >= 1
    /\ \E j \in DOMAIN last.pre.documents :
          /\ ~Passes(FilterOf(last), last.pre.documents[j])
          /\ L2(Embed(last.arg.query), last.pre.index[j]) + 1 < last.ret[1].score[2]

\* C14: the filter sees only the min(2k, size) nearest neighbours: a search
\* never returns more than min(k, number of stored documents satisfying the
\* filter) results, and on a store of at most 2k documents it returns exactly
\* that many.
C14_FilterAfterOverfetch ==
    (last.op \in SearchOps /\ last.arg.query # "" /\ last.arg.k >= 1) =>
        LET matching == Cardinality(Satisfying(last.pre.documents, FilterOf(last))) IN
        /\ Len(last.ret) <= Min(last.arg.k, matching)
        /\ Len(last.pre.documents) <= 2 * last.arg.k =>
              Len(last.ret) = Min(last.arg.k, matching)

\* C14's case: at least k stored documents satisfy the filter and the search
\* returns fewer than k results
C14_Witness ==
    /\ last.op \in SearchOps
    /\ last.arg.query # ""
    /\ last.arg.k >= 1
    /\ Cardinality(Satisfying(last.pre.documents, FilterOf(last))) >= last.arg.k
    /\ Len(last.ret) < last.arg.k

\* C15: add_documents([]) returns 0 and changes nothing: not the index, not
\* the document list, not the two files.
C15_AddNothingChangesNothing ==
    [][(last'.op = "add_documents" /\ last'.arg = <<>>) =>
          /\ last'.ret = 0
          /\ index' = index
          /\ documents' = documents
          /\ disk' = disk]_vars

\* C15's case: add_documents([]) has been called on a store that holds a
\* document
C15_Witness ==
    /\ last.op = "add_documents"
    /\ last.arg = <<>>
    /\ Len(last.pre.documents) >= 1

\* C16: delete_document with an id no stored document has returns False and
\* changes nothing: no document goes, no vector_id changes, the index is the
\* same and the two files are not written.
C16_DeleteUnknownChangesNothing ==
    [][(last'.op = "delete_document" /\ Matches(documents[Main], last'.arg) = {}) =>
          /\ last'.ret = FALSE
          /\ index' = index
          /\ documents' = documents
          /\ disk' = disk]_vars

\* C16's case: delete_document has been called with an id that is not among
\* the ids of the two stored documents
C16_Witness ==
    /\ last.op = "delete_document"
    /\ Len(last.pre.documents) = 2
    /\ Matches(last.pre.documents, last.arg) = {}

\* C17: after delete_document(id) has returned True the document is gone:
\* get_document_by_id(id) is None and no search returns a document with that
\* id.
C17_DeletedIsGone ==
    (last.op = "delete_document" /\ last.ret = TRUE) =>
        /\ get_document_by_id(Store(Main), last.arg) = None
        /\ \A query \in Queries, k \in Ks :
              \A i \in DOMAIN search(Store(Main), query, k, NoFilter) :
                 Get(search(Store(Main), query, k, NoFilter)[i], "id", "") # last.arg

\* the positions (0-based) at which chunk is a substring of text
Occurs(text, chunk) ==
    {p \in 0 .. (Len(text) - Len(chunk)) : SubSeq(text, p + 1, p + Len(chunk)) = chunk}

\* chunks i.. are substrings of text in order, each starting at or after the
\* start `from` of the one before and at or before the position `upto`
\* where the one before ended, the last one ending at the end of text
RECURSIVE CoversFrom(_, _, _, _, _)
CoversFrom(text, chunks, i, from, upto) ==
    IF i > Len(chunks) THEN upto = Len(text)
    ELSE \E p \in Occurs(text, chunks[i]) :
            /\ from <= p
            /\ p <= upto
            /\ CoversFrom(text, chunks, i + 1, p, p + Len(chunks[i]))

\* C18: chunk_text(text, chunk_size, overlap) returns for every text and
\* every 0 <= overlap < chunk_size.
C18_ChunkTextReturns ==
    (last.op = "chunk_text" /\ last.arg.overlap < last.arg.chunk_size) =>
        last.ret.returns

\* C19: chunk_text with overlap >= chunk_size on a text longer than
\* chunk_size raises InvalidConfiguration: it returns no chunk list and does
\* not loop forever.
C19_BadOverlapRejected ==
    (/\ last.op = "chunk_text"
     /\ last.arg.overlap >= last.arg.chunk_size
     /\ Len(last.arg.text) > last.arg.chunk_size) =>
        last.raised

\* C20: when chunk_text returns for a text longer than chunk_size, its
\* chunks are substrings of the text in order that cover it without gaps: the
\* first starts at 0, each next one starts at or before the end of the one
\* before, and the last ends at len(text).
C20_ChunksCoverText ==
    (/\ last.op = "chunk_text"
     /\ Len(last.arg.text) > last.arg.chunk_size
     /\ last.ret.returns) =>
        /\ last.ret.chunks # <<>>
        /\ CoversFrom(last.arg.text, last.ret.chunks, 1, 0, 0)

\* C20's case: chunk_text has returned three or more chunks with a positive
\* overlap smaller than chunk_size, one of them cut short at a sentence end
C20_Witness ==
    /\ last.op = "chunk_text"
    /\ last.ret.returns
    /\ last.arg.overlap >= 1
    /\ last.arg.overlap < last.arg.chunk_size
    /\ Len(last.ret.chunks) >= 3
    /\ Len(last.ret.chunks[1]) < last.arg.chunk_size

\* the documents ingest_data gets from combine_data_for_vector_storage for
\* the arguments a, and those of them it hands to embed_chunked_document
CombinedFor(a) ==
    combine_data_for_vector_storage(
        synchronize_data(a.start_date, a.end_date, a.limit_per_day, {}))

LongDocs(a) ==
    {i \in DOMAIN CombinedFor(a) :
        Len(Get(CombinedFor(a)[i], "text", "")) >= LongTextThreshold}

\* C21: called as ingest_data calls it (the metadata is the document without
\* its text, so it carries the document's id), embed_chunked_document returns
\* one document per chunk, the i-th with id "<document id>_chunk_<i>",
\* chunk_index i and chunk_count the number of chunks.
C21_ChunkIdsSuffixed ==
    last.op = "ingest_data" =>
        \A d \in LongDocs(last.arg) :
            LET doc == CombinedFor(last.arg)[d]
                chunks == chunk_text(doc.text, IngestChunkSize, IngestOverlap).chunks
                out == embed_chunked_document(doc.text, DropField(doc, "text"),
                                              IngestChunkSize, IngestOverlap)
            IN /\ Len(out) = Len(chunks)
               /\ \A i \in DOMAIN out :
                    /\ out[i].id = doc.id \o "_chunk_" \o ToString(i - 1)
                    /\ out[i].chunk_index = i - 1
                    /\ out[i].chunk_count = Len(chunks)

\* the details fetch_bee_data stored for a conversation: it keys them by the
\* string form of the conversation id
FetchedDetails(data, conversation) ==
    LET details == Get(Get(data, "bee", <<>>), "details", <<>>)
        k == Key(StrId(Str(conversation.id)))
    IN IF k \in DOMAIN details THEN details[k] ELSE <<>>

\* the Bee conversations of data that carry an id
Identified(data) ==
    LET conversations == Get(Get(data, "bee", <<>>), "conversations", <<>>)
    IN {conversations[i] : i \in {j \in DOMAIN conversations :
                                     /\ "id" \in DOMAIN conversations[j]
                                     /\ ~Falsy(conversations[j].id)}}

\* C22: the text of a Bee document is the joined utterance transcript of the
\* conversation's fetched details whenever they hold utterance text, the
\* summary only when there is no transcript text, the short summary only
\* when there is neither; for the details as fetch_bee_data keys them and
\* for integer and string ids alike.
C22_BeeTextByPriority ==
    last.op = "combine_data_for_vector_storage" =>
        \A c \in Identified(last.arg) :
            LET transcript == TranscriptText(FetchedDetails(last.arg, c))
                expected == IF transcript # "" THEN transcript
                            ELSE IF Get(c, "summary", "") # "" THEN c.summary
                            ELSE Get(c, "short_summary", "")
            IN \A i \in DOMAIN last.ret :
                  last.ret[i].id = "bee_" \o Str(c.id) => last.ret[i].text = expected

\* the raw records ingest_data fetched for the arguments a
FetchedCount(a) ==
    LET data == synchronize_data(a.start_date, a.end_date, a.limit_per_day, {})
    IN Len(Get(data, "limitless", <<>>))
       + Len(Get(Get(data, "bee", <<>>), "conversations", <<>>))

\* the number of skipped records in the counts ingest_data returns
reported_skipped(counts) == Get(counts, "skipped", 0)

\* C23: in an ingest_data run the records fetched are the records turned
\* into documents plus the records the returned counts report as skipped.
C23_SkippedAreCounted ==
    last.op = "ingest_data" =>
        FetchedCount(last.arg) = last.ret.total_documents + reported_skipped(last.ret)

\* the elements of a sequence
Elements(seq) == {seq[i] : i \in DOMAIN seq}

\* the first page fetch_bee_data asks the Bee client for, were the request
\* to succeed
FirstBatch(limit) ==
    Take(BeeServerPage(1), IF limit > 0 THEN Min(BeePageSize, limit) ELSE BeePageSize)

\* the conversations of the first page whose detail request fails
DetailFailed(limit) ==
    {c \in Elements(FirstBatch(limit)) : Str(c.id) \in api.failing.details}

\* what synchronize_data returned in the last call
ReturnedLifelogs == Elements(Get(last.ret, "limitless", <<>>))
ReturnedConversations ==
    Elements(Get(Get(last.ret, "bee", <<>>), "conversations", <<>>))

\* the days of the last synchronize_data call
SyncDays == Elements(DateRange(last.arg.start_date, last.arg.end_date))

Unprefixed(id) ==
    IF StartsWith(id, "bee_") THEN SubSeq(id, Len("bee_") + 1, Len(id)) ELSE id

\* the Bee ids and the latest Bee date of the store the last call was given
StoredBeeIds ==
    {Unprefixed(last.pre.documents[i].id) :
        i \in {j \in DOMAIN last.pre.documents : last.pre.documents[j].source = "bee"}}

LatestBeeDate == get_latest_document_date(last.pre, "bee")

\* C25: fetch_bee_data given a vector store returns no conversation whose
\* id the store already holds among its Bee ids (prefix stripped), none
\* dated on or before the store's latest Bee date, and none twice.
C25_FetchReturnsOnlyNew ==
    last.op = "fetch_bee_data" =>
        LET returned == last.ret.conversations IN
        /\ \A i \in DOMAIN returned : Str(returned[i].id) \notin StoredBeeIds
        /\ LatestBeeDate # "" =>
              \A i \in DOMAIN returned :
                 Rank(extract_date_from_iso(returned[i].start_time)) > Rank(LatestBeeDate)
        /\ \A i, j \in DOMAIN returned :
              i # j => Str(returned[i].id) # Str(returned[j].id)

\* the store holds a conversation the API still lists, the API lists it
\* twice, and the fetch returns a newer one
C25_Witness ==
    /\ last.op = "fetch_bee_data"
    /\ last.ret.conversations # <<>>
    /\ \E i, j \in DOMAIN api.conversations :
          /\ i # j
          /\ api.conversations[i] = api.conversations[j]
          /\ Str(api.conversations[i].id) \in StoredBeeIds

\* C26: every document combine_data_for_vector_storage produces has the id
\* "<source>_<native id>": "limitless_X" for the lifelog with id X, "bee_Y"
\* for the conversation with id Y.
C26_CanonicalIds ==
    last.op = "combine_data_for_vector_storage" =>
        \A i \in DOMAIN last.ret :
            LET doc == last.ret[i] IN
            /\ doc.source = "limitless" =>
                  \E l \in Elements(Get(last.arg, "limitless", <<>>)) :
                     doc.id = "limitless_" \o l.id /\ doc.timestamp = l.startTime
            /\ doc.source = "bee" =>
                  \E c \in Identified(last.arg) :
                     doc.id = "bee_" \o Str(c.id) /\ doc.timestamp = c.start_time

\* the conversations the API offers that are new to the store the last call
\* was given: with an id not stored, dated after the latest Bee date, and
\* with details to fetch
NewConversations ==
    {c \in Elements(api.conversations) :
        /\ "id" \in DOMAIN c /\ ~Falsy(c.id)
        /\ Str(c.id) \notin StoredBeeIds
        /\ (LatestBeeDate = ""
            \/ Rank(extract_date_from_iso(c.start_time)) > Rank(LatestBeeDate))
        /\ BeeDetails(Str(c.id)) # <<>>}

\* C29: fetch_bee_data given a vector store returns every new conversation
\* the API offers, up to the limit: a stored id, an id fetched earlier in the
\* call or an old date met on the way leaves no later new conversation out.
C29_FetchReturnsEveryNew ==
    (last.op = "fetch_bee_data" /\ api.failing = NoFailure) =>
        LET returned == Elements(last.ret.conversations) IN
        IF last.arg.limit = 0 \/ Cardinality(NewConversations) <= last.arg.limit
        THEN NewConversations \subseteq returned
        ELSE Cardinality(returned) = last.arg.limit

\* doc is among docs, whatever its vector_id
Holds(docs, doc) ==
    \E j \in DOMAIN docs : DropField(docs[j], "vector_id") = DropField(doc, "vector_id")

\* C27: with two instances over the same files, each adding documents and
\* saving, the files hold the documents of both, and a store constructed
\* from them has as many vectors as documents: no save erases what the
\* other instance committed.
C27_SavesKeepBoth ==
    disk.docs.state = "ok" =>
        /\ \A s \in Stores : \A i \in DOMAIN documents[s] :
              Holds(disk.docs.data, documents[s][i])
        /\ Len(load(disk).index) = Len(load(disk).documents)

\* C28: in the web process a document committed by POST /api/ingest through
\* data_ingestion.vector_store is found by every later GET
\* /api/conversation/{id} and counted by every later GET /api/calendar, both
\* served from the module-level vector_store.
C28_IngestedIsServed ==
    /\ (last.op = "get_document_by_id" /\ last.store = Main) =>
          ((\E i \in DOMAIN documents[Other] : documents[Other][i].id = last.arg)
              => last.ret # None)
    /\ (last.op = "get_stats" /\ last.store = Main) =>
          \A i \in DOMAIN documents[Other] :
             LET date == documents[Other][i].date IN
             /\ date \in DOMAIN last.ret.dates
             /\ last.ret.dates[date] >= Cardinality(Dated(documents[Other], date))

\* C30: after fetch_and_process_limitless_data has put the newly fetched
\* Limitless documents in the place of the stored ones, the store it saves
\* has as many vectors as documents and documents[i].vector_id == i, for any
\* mix of Bee and Limitless documents held before.
C30_RepopulateKeepsPairing ==
    (last.op = "repopulate" /\ disk.docs.state = "ok") =>
        /\ Len(disk.index.data) = Len(disk.docs.data)
        /\ \A i \in DOMAIN disk.docs.data : disk.docs.data[i].vector_id = i - 1

====
